---- MODULE Spec2Model ----
(***************************************************************************)
(* A model of the quiz session module (src/lib/quiz-session.ts), of the    *)
(* session-based GameGuesser component that drives it, and of the curated  *)
(* selector of round content (src/lib/curated-games-loader.ts).            *)
(*                                                                         *)
(* JavaScript objects are modelled as TLA+ records whose DOMAIN is the set *)
(* of own keys: a key that was never assigned (completedAt before the quiz *)
(* completes, id in a damaged blob) is absent from the DOMAIN.  Array      *)
(* index i of the source is position i + 1 of the TLA+ sequence.           *)
(*                                                                         *)
(*   Spec          the session operations called in any order              *)
(*   SpecCycle     maxQuestions cycles of update, submit, advance          *)
(*   SpecValidate  validateQuizIntegrity on an arbitrary session           *)
(*   SpecLoad      loadSession on an arbitrary store                       *)
(*   SpecSubmit    one submitAnswer call on an arbitrary session           *)
(*   SpecOps       one call of each session operation, any store           *)
(*   SpecSelect    getRandomGameWithScreenshot on an arbitrary catalog     *)
(*   SpecUI        the component: clicks, pending round loads, reloads     *)
(*   SpecFetch     one fetchWithRetry call of the route handler            *)
(*   SpecPages     the random-page sampling loop of the route handlers     *)
(*   SpecGuesser   the component without a session (game-guesser.tsx)      *)
(***************************************************************************)
EXTENDS Integers, Sequences, FiniteSets, Bags, TLC

VARIABLES
    session,    \* the QuizSession snapshot the caller holds (React state `session`)
    store,      \* localStorage's value under STORAGE_KEY
    storeOk,    \* FALSE while localStorage's methods throw
    now,        \* Date.now()
    nextId,     \* the next value crypto.randomUUID() hands out
    maxQ,       \* the maxQuestions argument the caller passes to advanceToNextQuestion
    pc,         \* where the caller stands in its protocol
    nSubmit,    \* submitAnswer calls that returned, since the session was created
    nAdvance,   \* advanceToNextQuestion calls, since the session was created
    nCorrect,   \* rounds whose selected option equalled the round's correctAnswer
    lastWrite,  \* the session operation that last wrote the store (component only)
    ui,         \* the component's other React state
    inflight,   \* loadGameForCurrentQuestion calls awaiting their fetch
    input,      \* the argument of a pure function under check
    result      \* what the function under check returned

vars == <<session, store, storeOk, now, nextId, maxQ, pc, nSubmit, nAdvance,
          nCorrect, lastWrite, ui, inflight, input, result>>

(***************************************************************************)
(* Bounds of the model.                                                    *)
(***************************************************************************)
MaxTime == 2        \* the clock runs 1..MaxTime
MaxIds == 1         \* sessions created in one behaviour
MaxRounds == 2      \* maxQuestions ranges over 1..MaxRounds
MaxAnswers == 2     \* answers a session holds at most
MaxIdx == 1         \* largest round index handed to updateSessionGameData
MaxInputAnswers == 3  \* answers of a session handed to validateQuizIntegrity
MaxInflight == 2    \* loadGameForCurrentQuestion calls awaiting their fetch at once
MaxGameData == 2    \* rounds of content in a session handed to submitAnswer

Names == {"A", "B"}                 \* game titles
Times == 1..MaxTime

NoSession == [none |-> TRUE]        \* null / no session
NoValue == "-"                      \* a variable a specification does not use
NoResult == [none |-> TRUE]         \* the function under check was not called yet


(***************************************************************************)
(* Round content: QuizSession['gameData'][0].  The options offered are all *)
(* of Names; game and screenshot are determined by the correct title.      *)
(***************************************************************************)
GameData == [correctAnswer : Names]

(***************************************************************************)
(* JavaScript property access and truthiness on a record.                  *)
(***************************************************************************)
Has(o, k) == k \in DOMAIN o
\* !o[k] is false: the key is present and its number is not 0
TruthyNum(o, k) == Has(o, k) /\ o[k] # 0
\* o[k] < n, which is false for undefined
LessThan(o, k, n) == Has(o, k) /\ o[k] < n
\* { ...o, k: v }
With(o, k, v) == [f \in DOMAIN o \cup {k} |-> IF f = k THEN v ELSE o[f]]

(***************************************************************************)
(* The persisted blob.  localStorage holds text.  JSON.stringify writes an *)
(* object as the list of its own keys, in the order they were added, each  *)
(* with its value; JSON.parse builds the object back from that list,       *)
(* throws on text that is not JSON, and yields null or a number for such   *)
(* JSON.  The values of a session are numbers, booleans and arrays of flat *)
(* objects of strings, numbers and booleans, which JSON writes and reads   *)
(* back element by element: the model keeps such a value as it is.         *)
(***************************************************************************)
Absent == [kind |-> "absent"]                 \* getItem returns null
Garbage == [kind |-> "garbage"]               \* text that is not JSON
JsonNull == [kind |-> "null"]                 \* the text  null
JsonNumber == [kind |-> "number"]             \* the text  5
EmptyText == [kind |-> "empty"]               \* the empty string

\* One own key of an object as JSON writes it; a key the object does not
\* hold is not written.
member(o, k) == IF k \in DOMAIN o THEN <<<<k, o[k]>>>> ELSE <<>>

\* JSON.stringify that leaves out completedAt.
membersWithoutCompletedAt(s) ==
    member(s, "id") \o member(s, "startedAt") \o member(s, "currentQuestion") \o
    member(s, "score") \o member(s, "answers") \o member(s, "gameData") \o
    member(s, "isComplete")

\* The members of a session, in the order createNewSession's literal and
\* advanceToNextQuestion's assignments add the keys.
members(s) ==
    member(s, "id") \o member(s, "startedAt") \o member(s, "currentQuestion") \o
    member(s, "score") \o member(s, "answers") \o member(s, "gameData") \o
    member(s, "isComplete") \o member(s, "completedAt")

\* The object JSON.parse builds from a list of members.
object(ms) ==
    [k \in {ms[i][1] : i \in 1..Len(ms)} |->
        ms[CHOOSE i \in 1..Len(ms) : ms[i][1] = k][2]]

stringify(s) == [kind |-> "object", text |-> members(s)]
parseThrows(b) == b.kind = "garbage"
parse(b) == object(b.text)

\* saveSession with no catch block: a throwing setItem escapes.
saveSessionUncaught(ok) == ~ok

\* saveSession raises: never, the catch block logs what setItem threw.
saveSessionRaises(ok) == FALSE

\* saveSession: setItem inside try/catch; a throwing store leaves the blob.
saveSession(st, ok, s) == IF ok THEN stringify(s) ELSE st

\* clearSession: removeItem inside try/catch.
clearSession(st, ok) == IF ok THEN Absent ELSE st

\* An operation that writes its result into the object it was handed.
argumentAliased(s, value) == value

\* The object handed to an operation, after the call: the operations build
\* their result with { ...session } and copies of the arrays ([...]) and
\* assign to those only.
argumentAfter(s, value) == s

\* createNewSession that starts the round pointer at 0.
createNewSessionFromZero(id, t) ==
    [id |-> id, startedAt |-> t, currentQuestion |-> 0, score |-> 0,
     answers |-> <<>>, gameData |-> <<>>, isComplete |-> FALSE]

\* createNewSession's object literal.
createNewSession(id, t) ==
    [id |-> id, startedAt |-> t, currentQuestion |-> 1, score |-> 0,
     answers |-> <<>>, gameData |-> <<>>, isComplete |-> FALSE]

\* The while loop of updateSessionGameData: push copies of gameData until
\* the array is longer than questionIndex.
RECURSIVE padGameData(_, _, _)
padGameData(arr, questionIndex, gameData) ==
    IF Len(arr) <= questionIndex
    THEN padGameData(Append(arr, [correctAnswer |-> gameData.correctAnswer]),
                     questionIndex, gameData)
    ELSE arr

\* updateSessionGameData that pushes one copy on every call.
updateSessionGameDataAppending(s, questionIndex, gameData) ==
    [s EXCEPT !.gameData =
        [padGameData(Append(s.gameData, [correctAnswer |-> gameData.correctAnswer]),
                     questionIndex, gameData)
            EXCEPT ![questionIndex + 1] = gameData]]

\* updateSessionGameData without the while loop: an assignment past the
\* end of the array is dropped.
updateSessionGameDataUnpadded(s, questionIndex, gameData) ==
    [s EXCEPT !.gameData =
        IF questionIndex + 1 \in DOMAIN s.gameData
        THEN [s.gameData EXCEPT ![questionIndex + 1] = gameData]
        ELSE s.gameData]

updateSessionGameData(s, questionIndex, gameData) ==
    [s EXCEPT !.gameData =
        [padGameData(s.gameData, questionIndex, gameData)
            EXCEPT ![questionIndex + 1] = gameData]]

\* session.gameData[currentIndex] is undefined
submitAnswerThrows(s) ==
    ~(s.currentQuestion - 1 >= 0 /\ s.currentQuestion <= Len(s.gameData))

\* submitAnswer that also moves the round pointer.
submitAnswerAdvancing(s, selectedOption, t) ==
    LET gameData == s.gameData[s.currentQuestion]
        isCorrect == selectedOption = gameData.correctAnswer
        answer == [questionIndex |-> s.currentQuestion - 1,
                   selectedOption |-> selectedOption,
                   correctAnswer |-> gameData.correctAnswer,
                   isCorrect |-> isCorrect,
                   answeredAt |-> t]
    IN [s EXCEPT !.score = IF isCorrect THEN s.score + 1 ELSE s.score,
                 !.answers = Append(s.answers, answer),
                 !.currentQuestion = s.currentQuestion + 1]

\* submitAnswer that takes the answer's questionIndex from the answer log.
submitAnswerLogIndex(s, selectedOption, t) ==
    LET gameData == s.gameData[s.currentQuestion]
        isCorrect == selectedOption = gameData.correctAnswer
        answer == [questionIndex |-> Len(s.answers),
                   selectedOption |-> selectedOption,
                   correctAnswer |-> gameData.correctAnswer,
                   isCorrect |-> isCorrect,
                   answeredAt |-> t]
    IN [s EXCEPT !.score = IF isCorrect THEN s.score + 1 ELSE s.score,
                 !.answers = Append(s.answers, answer)]

\* submitAnswer that counts every answer as correct.
submitAnswerAlwaysScoring(s, selectedOption, t) ==
    LET gameData == s.gameData[s.currentQuestion]
        answer == [questionIndex |-> s.currentQuestion - 1,
                   selectedOption |-> selectedOption,
                   correctAnswer |-> gameData.correctAnswer,
                   isCorrect |-> selectedOption = gameData.correctAnswer,
                   answeredAt |-> t]
    IN [s EXCEPT !.score = s.score + 1,
                 !.answers = Append(s.answers, answer)]

\* submitAnswer that numbers the rounds of the answer log from 1.
submitAnswerOneBased(s, selectedOption, t) ==
    LET gameData == s.gameData[s.currentQuestion]
        isCorrect == selectedOption = gameData.correctAnswer
        answer == [questionIndex |-> s.currentQuestion,
                   selectedOption |-> selectedOption,
                   correctAnswer |-> gameData.correctAnswer,
                   isCorrect |-> isCorrect,
                   answeredAt |-> t]
    IN [s EXCEPT !.score = IF isCorrect THEN s.score + 1 ELSE s.score,
                 !.answers = Append(s.answers, answer)]

submitAnswer(s, selectedOption, t) ==
    LET currentIndex == s.currentQuestion - 1
        gameData == s.gameData[currentIndex + 1]
        isCorrect == selectedOption = gameData.correctAnswer
        answer == [questionIndex |-> currentIndex,
                   selectedOption |-> selectedOption,
                   correctAnswer |-> gameData.correctAnswer,
                   isCorrect |-> isCorrect,
                   answeredAt |-> t]
    IN [s EXCEPT !.score = IF isCorrect THEN s.score + 1 ELSE s.score,
                 !.answers = Append(s.answers, answer)]

\* One submitAnswer call that writes the store before it looks for the
\* round's content.
submitAnswerSavingFirst(st, ok, s, selectedOption, t) ==
    IF submitAnswerThrows(s)
    THEN [raised |-> TRUE, value |-> NoSession, store |-> saveSession(st, ok, s)]
    ELSE [raised |-> FALSE, value |-> submitAnswer(s, selectedOption, t),
          store |-> saveSession(st, ok, submitAnswer(s, selectedOption, t))]

\* One submitAnswer call: the throw comes before anything is built or
\* saved; otherwise the updated session is saved and returned.
submitAnswerCall(st, ok, s, selectedOption, t) ==
    IF submitAnswerThrows(s)
    THEN [raised |-> TRUE, value |-> NoSession, store |-> st]
    ELSE [raised |-> FALSE, value |-> submitAnswer(s, selectedOption, t),
          store |-> saveSession(st, ok, submitAnswer(s, selectedOption, t))]

\* advanceToNextQuestion completing one round early (>= for >).
advanceToNextQuestionEarly(s, maxQuestions, t) ==
    LET updatedSession == [s EXCEPT !.currentQuestion = s.currentQuestion + 1]
    IN IF updatedSession.currentQuestion >= maxQuestions
       THEN With(With(updatedSession, "isComplete", TRUE), "completedAt", t)
       ELSE updatedSession

\* advanceToNextQuestion that completes the quiz without stamping it.
advanceToNextQuestionUnstamped(s, maxQuestions, t) ==
    LET updatedSession == [s EXCEPT !.currentQuestion = s.currentQuestion + 1]
    IN IF updatedSession.currentQuestion > maxQuestions
       THEN With(updatedSession, "isComplete", TRUE)
       ELSE updatedSession

advanceToNextQuestion(s, maxQuestions, t) ==
    LET updatedSession == [s EXCEPT !.currentQuestion = s.currentQuestion + 1]
    IN IF updatedSession.currentQuestion > maxQuestions
       THEN With(With(updatedSession, "isComplete", TRUE), "completedAt", t)
       ELSE updatedSession

\* loadSession's try block: what it returns, or that it threw.
loadSessionTry(st, ok) ==
    IF ~ok THEN [threw |-> TRUE]                            \* getItem throws
    ELSE IF st.kind \in {"absent", "empty"}                 \* !stored
    THEN [threw |-> FALSE, value |-> NoSession, store |-> st]
    ELSE IF parseThrows(st) THEN [threw |-> TRUE]           \* JSON.parse throws
    ELSE IF st.kind = "null" THEN [threw |-> TRUE]          \* null.id: TypeError
    ELSE IF st.kind = "number"                              \* (5).id is undefined
    THEN [threw |-> FALSE, value |-> NoSession, store |-> clearSession(st, ok)]
    ELSE LET s == parse(st)
         IN IF \/ ~TruthyNum(s, "id")
               \/ ~TruthyNum(s, "startedAt")
               \/ LessThan(s, "currentQuestion", 1)
            THEN [threw |-> FALSE, value |-> NoSession, store |-> clearSession(st, ok)]
            ELSE [threw |-> FALSE, value |-> s, store |-> st]

\* loadSession with no catch block: what the try block throws escapes.
loadSessionUncaught(st, ok) ==
    LET r == loadSessionTry(st, ok)
    IN IF r.threw
       THEN [raised |-> TRUE, value |-> NoSession, store |-> st]
       ELSE [raised |-> FALSE, value |-> r.value, store |-> r.store]

\* loadSession: the catch block clears the store and returns null.
loadSession(st, ok) ==
    LET r == loadSessionTry(st, ok)
    IN IF r.threw
       THEN [raised |-> FALSE, value |-> NoSession, store |-> clearSession(st, ok)]
       ELSE [raised |-> FALSE, value |-> r.value, store |-> r.store]

\* validateQuizIntegrity without the round pointer check.
validateQuizIntegrityNoPointer(s, t) ==
    /\ TruthyNum(s, "id") /\ TruthyNum(s, "startedAt")
    /\ \A i \in 1..Len(s.answers) : s.answers[i].questionIndex = i - 1
    /\ ~(s.startedAt > t)
    /\ \A i \in 1..Len(s.answers) :
          ~(s.answers[i].answeredAt < s.startedAt \/ s.answers[i].answeredAt > t)

validateQuizIntegrity(s, t) ==
    /\ TruthyNum(s, "id") /\ TruthyNum(s, "startedAt")
    /\ \A i \in 1..Len(s.answers) : s.answers[i].questionIndex = i - 1
    /\ s.currentQuestion = Len(s.answers) + 1
    /\ ~(s.startedAt > t)
    /\ \A i \in 1..Len(s.answers) :
          ~(s.answers[i].answeredAt < s.startedAt \/ s.answers[i].answeredAt > t)

(***************************************************************************)
(* The session module called in any order by a caller that keeps the       *)
(* snapshot each call returns.                                             *)
(***************************************************************************)
Init ==
    /\ session = NoSession
    /\ store = Absent
    /\ storeOk = TRUE
    /\ now = 1
    /\ nextId = 1
    /\ maxQ = MaxRounds
    /\ pc = NoValue
    /\ nSubmit = 0 /\ nAdvance = 0 /\ nCorrect = 0
    /\ lastWrite = NoValue
    /\ ui = NoValue
    /\ inflight = <<>>
    /\ input = NoValue
    /\ result = NoValue

Tick ==
    /\ now < MaxTime
    /\ now' = now + 1
    /\ UNCHANGED <<session, store, storeOk, nextId, maxQ, pc, nSubmit,
                   nAdvance, nCorrect, lastWrite, ui, inflight, input, result>>

CreateNewSession ==
    /\ nextId <= MaxIds
    /\ session' = createNewSession(nextId, now)
    /\ store' = saveSession(store, storeOk, session')
    /\ nextId' = nextId + 1
    /\ nSubmit' = 0 /\ nAdvance' = 0 /\ nCorrect' = 0
    /\ UNCHANGED <<storeOk, now, pc, maxQ, lastWrite, ui, inflight, input, result>>

UpdateSessionGameData ==
    /\ session # NoSession
    /\ \E questionIndex \in 0..MaxIdx, gameData \in GameData :
          session' = updateSessionGameData(session, questionIndex, gameData)
    /\ store' = saveSession(store, storeOk, session')
    /\ UNCHANGED <<storeOk, now, pc, nextId, maxQ, nSubmit, nAdvance, nCorrect,
                   lastWrite, ui, inflight, input, result>>

SubmitAnswer ==
    /\ session # NoSession
    /\ Len(session.answers) < MaxAnswers
    /\ ~submitAnswerThrows(session)
    /\ \E selectedOption \in Names :
          /\ session' = submitAnswer(session, selectedOption, now)
          /\ nCorrect' = nCorrect +
                IF selectedOption = session.gameData[session.currentQuestion].correctAnswer
                THEN 1 ELSE 0
    /\ store' = saveSession(store, storeOk, session')
    /\ nSubmit' = nSubmit + 1
    /\ UNCHANGED <<storeOk, now, pc, nextId, maxQ, nAdvance, lastWrite, ui, inflight, input, result>>

\* submitAnswer throws: nothing is returned and nothing is written.
SubmitAnswerThrows ==
    /\ session # NoSession
    /\ submitAnswerThrows(session)
    /\ UNCHANGED <<session, store, storeOk, now, nextId, maxQ, pc, nSubmit, nAdvance,
                   nCorrect, lastWrite, ui, inflight, input, result>>

AdvanceToNextQuestion ==
    /\ session # NoSession
    /\ session.currentQuestion <= maxQ + 1
    /\ session' = advanceToNextQuestion(session, maxQ, now)
    /\ store' = saveSession(store, storeOk, session')
    /\ nAdvance' = nAdvance + 1
    /\ UNCHANGED <<storeOk, now, pc, nextId, maxQ, nSubmit, nCorrect, lastWrite, ui, inflight,
                   input, result>>

Next ==
    \/ Tick
    \/ CreateNewSession
    \/ UpdateSessionGameData
    \/ SubmitAnswer
    \/ SubmitAnswerThrows
    \/ AdvanceToNextQuestion

Spec == Init /\ [][Next]_vars

(***************************************************************************)
(* Properties of the session module under Spec.                            *)
(***************************************************************************)
HasSession == session # NoSession

RoundsAnswered == {session.answers[i].questionIndex : i \in 1..Len(session.answers)}

NoDoubleCount ==
    HasSession =>
        /\ \A i, j \in 1..Len(session.answers) :
              session.answers[i].questionIndex = session.answers[j].questionIndex
                  => i = j
        /\ session.score <= Cardinality(RoundsAnswered)

\* C6 as stated: once completedAt is set, no later operation on that
\* session changes it or increments currentQuestion.
CompletedAtSetOnce ==
    [][(/\ HasSession
        /\ Has(session, "completedAt")
        /\ session'.id = session.id)
       => /\ Has(session', "completedAt")
          /\ session'.completedAt = session.completedAt
          /\ session'.currentQuestion = session.currentQuestion]_vars

\* C10 as stated: in every reachable session each answer's questionIndex
\* is its position in the answers sequence.
QuestionIndexIsPosition ==
    HasSession =>
        \A i \in 1..Len(session.answers) : session.answers[i].questionIndex = i - 1

\* C11 (as amended): in every session reachable from createNewSession
\* through the session operations, score is the number of answers logged as
\* correct, so 0 <= score <= answers.length; score <= currentQuestion - 1
\* holds whenever no more submitAnswer calls than advanceToNextQuestion
\* calls were made.
CorrectAnswers == {i \in 1..Len(session.answers) : session.answers[i].isCorrect}

CompleteIffPastLastRound ==
    HasSession =>
        /\ session.isComplete <=> session.currentQuestion > maxQ
        /\ Has(session, "completedAt") <=> session.isComplete

\* C24 witness: the session was advanced past the last round after an
\* answer, and is complete and stamped.
CompletedPastLastRound ==
    /\ HasSession
    /\ session.currentQuestion = maxQ + 1
    /\ session.isComplete /\ Has(session, "completedAt")
    /\ session.answers # <<>>
    /\ nAdvance = maxQ

(***************************************************************************)
(* The caller's protocol on a fresh session: maxQuestions cycles of        *)
(* updateSessionGameData for the current round, submitAnswer,              *)
(* advanceToNextQuestion.                                                  *)
(***************************************************************************)
InitCycle ==
    /\ now = 1
    /\ session = createNewSession(1, now)
    /\ storeOk = TRUE
    /\ store = saveSession(Absent, storeOk, session)
    /\ nextId = 2
    /\ maxQ \in 1..MaxRounds
    /\ pc = "update"
    /\ nSubmit = 0 /\ nAdvance = 0 /\ nCorrect = 0
    /\ lastWrite = NoValue
    /\ ui = NoValue
    /\ inflight = <<>>
    /\ input = NoValue
    /\ result = NoValue

CycleUpdate ==
    /\ pc = "update"
    /\ \E gameData \in GameData :
          /\ session' = updateSessionGameData(session, session.currentQuestion - 1,
                                              gameData)
          /\ input' = gameData
    /\ store' = saveSession(store, storeOk, session')
    /\ pc' = "submit"
    /\ UNCHANGED <<storeOk, now, nextId, maxQ, nSubmit, nAdvance, nCorrect, lastWrite, ui,
                   inflight, result>>

CycleSubmit ==
    /\ pc = "submit"
    /\ ~submitAnswerThrows(session)
    /\ \E selectedOption \in Names :
          /\ session' = submitAnswer(session, selectedOption, now)
          /\ nCorrect' = nCorrect + IF selectedOption = input.correctAnswer THEN 1 ELSE 0
    /\ store' = saveSession(store, storeOk, session')
    /\ nSubmit' = nSubmit + 1
    /\ pc' = "advance"
    /\ UNCHANGED <<storeOk, now, nextId, maxQ, nAdvance, lastWrite, ui, inflight, input, result>>

CycleAdvance ==
    /\ pc = "advance"
    /\ session' = advanceToNextQuestion(session, maxQ, now)
    /\ store' = saveSession(store, storeOk, session')
    /\ nAdvance' = nAdvance + 1
    /\ pc' = IF nAdvance' = maxQ THEN "done" ELSE "update"
    /\ UNCHANGED <<storeOk, now, nextId, maxQ, nSubmit, nCorrect, lastWrite, ui, inflight,
                   input, result>>

NextCycle ==
    \/ Tick
    \/ CycleUpdate
    \/ CycleSubmit
    \/ CycleAdvance

SpecCycle == InitCycle /\ [][NextCycle]_vars

\* C5: after exactly maxQuestions cycles the session is complete and its
\* score is the number of rounds whose selected option equalled the round's
\* correctAnswer; before the last advance isComplete is false.
CompleteAfterMaxCycles ==
    /\ pc = "done" => (session.isComplete /\ session.score = nCorrect)
    /\ pc # "done" => ~session.isComplete

\* C5 witness: the longest quiz finished with one round right and the
\* others wrong.
QuizFinishedMixed ==
    /\ pc = "done" /\ maxQ = MaxRounds /\ nAdvance = MaxRounds
    /\ nCorrect = 1 /\ session.score = 1

\* C32: while the clock does not run backwards, the session after
\* createNewSession and k complete cycles of updateSessionGameData,
\* submitAnswer, advanceToNextQuestion, 0 <= k <= maxQuestions, passes
\* validateQuizIntegrity, the completed session after the last cycle too.
CyclesKeepIntegrity ==
    (pc \in {"update", "done"}) =>
        /\ nAdvance = Len(session.answers)
        /\ validateQuizIntegrity(session, now)

\* C32 witness: the longest quiz is complete, its answers were given at
\* different times, and the session passes validateQuizIntegrity.
CompletedQuizValidates ==
    /\ pc = "done" /\ maxQ = MaxRounds
    /\ session.isComplete
    /\ Len(session.answers) = MaxRounds
    /\ session.answers[1].answeredAt < session.answers[MaxRounds].answeredAt
    /\ validateQuizIntegrity(session, now)

(***************************************************************************)
(* Sessions as a persisted blob can hold them: id and startedAt may be     *)
(* missing, the round pointer and the answers' indices and timestamps are  *)
(* arbitrary.  validateQuizIntegrity reads nothing else of the session.    *)
(***************************************************************************)
\* The answer at position i carries its own index, the index before it (a
\* duplicate) or 5 (out of order), and the earliest or the latest time.
AnswerAt(i) ==
    [questionIndex : {i - 1, i - 2, 5}, selectedOption : {"A"},
     correctAnswer : {"A"}, isCorrect : {TRUE}, answeredAt : {1, MaxTime}]

RECURSIVE AnswerSeqs(_)
AnswerSeqs(n) ==
    IF n = 0 THEN {<<>>}
    ELSE {Append(prefix, a) : prefix \in AnswerSeqs(n - 1), a \in AnswerAt(n)}

SessionBodies ==
    [currentQuestion : 0..(MaxInputAnswers + 1), score : {0},
     answers : UNION {AnswerSeqs(n) : n \in 0..MaxInputAnswers},
     gameData : {<<>>}, isComplete : {FALSE}]

\* startedAt = 0 stands for a body without the startedAt key.
SessionInput(body, hasId, startedAt) ==
    LET withId == IF hasId THEN With(body, "id", 1) ELSE body
    IN IF startedAt > 0 THEN With(withId, "startedAt", startedAt) ELSE withId

SessionInputs ==
    {SessionInput(body, hasId, startedAt) :
        body \in SessionBodies, hasId \in BOOLEAN, startedAt \in 0..MaxTime}

InitValidate ==
    /\ input \in SessionInputs
    /\ now \in Times
    /\ result = NoResult
    /\ session = NoSession
    /\ store = Absent
    /\ storeOk = TRUE
    /\ nextId = 1
    /\ maxQ = MaxRounds
    /\ pc = NoValue
    /\ nSubmit = 0 /\ nAdvance = 0 /\ nCorrect = 0
    /\ lastWrite = NoValue
    /\ ui = NoValue
    /\ inflight = <<>>

ValidateQuizIntegrity ==
    /\ result = NoResult
    /\ result' = [value |-> validateQuizIntegrity(input, now)]
    /\ UNCHANGED <<session, store, storeOk, now, nextId, maxQ, pc, nSubmit,
                   nAdvance, nCorrect, lastWrite, ui, inflight, input>>

NextValidate == ValidateQuizIntegrity

SpecValidate == InitValidate /\ [][NextValidate]_vars

\* The conditions the session has to meet, as the specification lists them.
IntegrityConditions(s, t) ==
    /\ Has(s, "id") /\ Has(s, "startedAt")
    /\ \A i \in 1..Len(s.answers) : s.answers[i].questionIndex = i - 1
    /\ s.currentQuestion = Len(s.answers) + 1
    /\ s.startedAt <= t
    /\ \A i \in 1..Len(s.answers) : s.answers[i].answeredAt \in s.startedAt..t

Blobs ==
    {Absent, EmptyText, Garbage, JsonNull, JsonNumber}
        \cup {stringify(s) : s \in SessionInputs}

InitLoad ==
    /\ store \in Blobs
    /\ storeOk \in BOOLEAN
    /\ input = store
    /\ now \in Times
    /\ result = NoResult
    /\ session = NoSession
    /\ nextId = 1
    /\ maxQ = MaxRounds
    /\ pc = NoValue
    /\ nSubmit = 0 /\ nAdvance = 0 /\ nCorrect = 0
    /\ lastWrite = NoValue
    /\ ui = NoValue
    /\ inflight = <<>>

LoadSession ==
    /\ result = NoResult
    /\ LET r == loadSession(store, storeOk)
       IN /\ result' = [raised |-> r.raised, value |-> r.value]
          /\ store' = r.store
    /\ UNCHANGED <<session, storeOk, now, nextId, maxQ, pc, nSubmit, nAdvance,
                   nCorrect, lastWrite, ui, inflight, input>>

NextLoad == LoadSession

SpecLoad == InitLoad /\ [][NextLoad]_vars

\* C8 as stated: loadSession returns null for every persisted session
\* that fails integrity validation.
LoadRejectsInvalid ==
    (/\ result # NoResult
     /\ storeOk
     /\ input.kind = "object"
     /\ ~validateQuizIntegrity(parse(input), now))
        => result.value = NoSession

\* C9: loadSession never raises, and returns null for an absent key, text
\* that is not JSON, JSON that is no session object, and a store whose read
\* throws.
LoadNeverRaises ==
    result # NoResult =>
        /\ ~result.raised
        /\ (input \in {Absent, EmptyText, Garbage, JsonNull, JsonNumber} \/ ~storeOk)
              => result.value = NoSession

\* C9 witness: the store held text that is not JSON; loadSession returned
\* null and cleared it.
LoadedGarbage ==
    /\ result # NoResult
    /\ input = Garbage /\ storeOk
    /\ result.value = NoSession /\ ~result.raised
    /\ store = Absent

(***************************************************************************)
(* One submitAnswer call on a session as the operations leave it: the      *)
(* round pointer at any round, content recorded for none, some or all of   *)
(* the rounds, and at most one answer logged already.                      *)
(***************************************************************************)
RECURSIVE GameDataSeqs(_)
GameDataSeqs(n) ==
    IF n = 0 THEN {<<>>}
    ELSE GameDataSeqs(n - 1) \cup
         {Append(g, d) : g \in {h \in GameDataSeqs(n - 1) : Len(h) = n - 1},
                         d \in GameData}

LoggedAnswers ==
    {<<>>} \cup
    {<<[questionIndex |-> 0, selectedOption |-> sel, correctAnswer |-> cor,
        isCorrect |-> (sel = cor), answeredAt |-> 1]>> : sel \in Names, cor \in Names}

SubmitSessions ==
    {[id |-> 1, startedAt |-> 1, currentQuestion |-> q,
      score |-> Cardinality({i \in 1..Len(a) : a[i].isCorrect}),
      answers |-> a, gameData |-> g, isComplete |-> FALSE] :
        q \in 1..(MaxGameData + 1), a \in LoggedAnswers,
        g \in GameDataSeqs(MaxGameData)}

InitSubmit ==
    /\ session \in SubmitSessions
    /\ store \in {Absent, stringify(session)}
    /\ storeOk \in BOOLEAN
    /\ now \in Times
    /\ nextId = 1
    /\ maxQ = MaxRounds
    /\ pc = "call"
    /\ nSubmit = 0 /\ nAdvance = 0 /\ nCorrect = 0
    /\ lastWrite = NoValue
    /\ ui = NoValue
    /\ inflight = <<>>
    /\ input = [session |-> session, store |-> store]
    /\ result = NoResult

SubmitAnswerCall ==
    /\ pc = "call"
    /\ \E selectedOption \in Names :
          LET r == submitAnswerCall(store, storeOk, session, selectedOption, now)
          IN /\ result' = [raised |-> r.raised, selectedOption |-> selectedOption]
             /\ session' = IF r.raised THEN session ELSE r.value
             /\ store' = r.store
    /\ pc' = "done"
    /\ UNCHANGED <<storeOk, now, nextId, maxQ, nSubmit, nAdvance, nCorrect,
                   lastWrite, ui, inflight, input>>

NextSubmit == SubmitAnswerCall

SpecSubmit == InitSubmit /\ [][NextSubmit]_vars

\* C12: submitAnswer fails when gameData[currentQuestion - 1] is absent, and
\* then the session has the answers and score it had and the persisted blob
\* is the one from before the call.
SubmitFailsWithoutRoundData ==
    (pc = "done" /\ submitAnswerThrows(input.session)) =>
        /\ result.raised
        /\ session.answers = input.session.answers
        /\ session.score = input.session.score
        /\ store = input.store

\* C12 witness: the pointer is at round 2, content is recorded for round 1
\* only, nothing was persisted, and the call failed.
SubmitFailedOnRoundTwo ==
    /\ pc = "done" /\ result.raised
    /\ input.session.currentQuestion = 2 /\ Len(input.session.gameData) = 1
    /\ input.store = Absent /\ storeOk

\* C13: when the round's content is present, submitAnswer appends exactly
\* one Answer with questionIndex = currentQuestion - 1, correctAnswer copied
\* from gameData[currentQuestion - 1] and isCorrect = (selectedOption =
\* that correctAnswer); score goes up by 1 if isCorrect and is unchanged
\* otherwise.
SubmitAppendsOneAnswer ==
    (pc = "done" /\ ~submitAnswerThrows(input.session)) =>
        LET before == input.session
            roundData == before.gameData[before.currentQuestion]
            n == Len(before.answers)
        IN /\ ~result.raised
           /\ Len(session.answers) = n + 1
           /\ SubSeq(session.answers, 1, n) = before.answers
           /\ session.answers[n + 1].questionIndex = before.currentQuestion - 1
           /\ session.answers[n + 1].correctAnswer = roundData.correctAnswer
           /\ session.answers[n + 1].isCorrect =
                  (result.selectedOption = roundData.correctAnswer)
           /\ session.score =
                  IF session.answers[n + 1].isCorrect
                  THEN before.score + 1 ELSE before.score

\* C13 witness: a second answer, for round 2, was appended and counted.
SubmitCountedRoundTwo ==
    /\ pc = "done" /\ ~result.raised
    /\ input.session.currentQuestion = 2
    /\ Len(session.answers) = 2 /\ session.answers[2].isCorrect
    /\ session.score = input.session.score + 1

(***************************************************************************)
(* One call of a session operation on a session as the operations leave    *)
(* it, with a store that holds nothing, the session, or text that is not   *)
(* JSON, and whose methods work or throw.  updateSessionGameData is then   *)
(* called a second time with the same round index and content, on the      *)
(* session it was handed the first time or on the session it returned.     *)
(***************************************************************************)
OpsUnused == <<storeOk, now, nextId, maxQ, nSubmit, nAdvance, nCorrect,
               lastWrite, ui, inflight, input>>

InitOps ==
    /\ session \in SubmitSessions
    /\ store \in {Absent, stringify(session), Garbage}
    /\ storeOk \in BOOLEAN
    /\ now \in Times
    /\ nextId = 2
    /\ maxQ = MaxRounds
    /\ pc = "call"
    /\ nSubmit = 0 /\ nAdvance = 0 /\ nCorrect = 0
    /\ lastWrite = NoValue
    /\ ui = NoValue
    /\ inflight = <<>>
    /\ input = [session |-> session, store |-> store]
    /\ result = NoResult

\* What the caller holds after an operation that ends in saveSession(value).
OpsReturn(op, value) ==
    /\ session' = IF saveSessionRaises(storeOk) THEN session ELSE value
    /\ store' = saveSession(store, storeOk, value)
    /\ result' = [op |-> op, raised |-> saveSessionRaises(storeOk),
                  argument |-> argumentAfter(session, value)]

OpsCreateNewSession ==
    /\ pc = "call"
    /\ OpsReturn("createNewSession", createNewSession(nextId, now))
    /\ pc' = "done"
    /\ UNCHANGED OpsUnused

OpsUpdateSessionGameData ==
    /\ pc = "call"
    /\ \E questionIndex \in 0..MaxIdx, gameData \in GameData :
          LET value == updateSessionGameData(session, questionIndex, gameData)
              raised == saveSessionRaises(storeOk)
          IN /\ session' = IF raised THEN session ELSE value
             /\ store' = saveSession(store, storeOk, value)
             /\ result' = [op |-> "updateSessionGameData", raised |-> raised,
                           questionIndex |-> questionIndex, gameData |-> gameData,
                           argument |-> argumentAfter(session, value),
                           first |-> session', firstStore |-> store']
    /\ pc' = "updated"
    /\ UNCHANGED OpsUnused

OpsUpdateSessionGameDataAgain ==
    /\ pc = "updated"
    /\ ~result.raised
    /\ \E on \in {"argument", "result"} :
          LET value == updateSessionGameData(
                           IF on = "argument" THEN input.session ELSE session,
                           result.questionIndex, result.gameData)
              raised == saveSessionRaises(storeOk)
          IN /\ session' = IF raised THEN session ELSE value
             /\ store' = saveSession(store, storeOk, value)
             /\ result' = With([result EXCEPT !.op = "updateSessionGameData twice",
                                              !.raised = raised], "on", on)
    /\ pc' = "done"
    /\ UNCHANGED OpsUnused

OpsSubmitAnswer ==
    /\ pc = "call"
    /\ \E selectedOption \in Names :
          LET r == submitAnswerCall(store, storeOk, session, selectedOption, now)
              raised == r.raised \/ saveSessionRaises(storeOk)
          IN /\ session' = IF raised THEN session ELSE r.value
             /\ store' = r.store
             /\ result' = [op |-> "submitAnswer", raised |-> raised,
                           selectedOption |-> selectedOption,
                           argument |-> IF r.raised THEN session
                                        ELSE argumentAfter(session, r.value)]
    /\ pc' = "done"
    /\ UNCHANGED OpsUnused

OpsAdvanceToNextQuestion ==
    /\ pc = "call"
    /\ OpsReturn("advanceToNextQuestion",
                 advanceToNextQuestion(session, maxQ, now))
    /\ pc' = "done"
    /\ UNCHANGED OpsUnused

NextOps ==
    \/ OpsCreateNewSession
    \/ OpsUpdateSessionGameData
    \/ OpsUpdateSessionGameDataAgain
    \/ OpsSubmitAnswer
    \/ OpsAdvanceToNextQuestion

SpecOps == InitOps /\ [][NextOps]_vars

\* C21: updateSessionGameData called a second time with the same round
\* index and content, on the session it was handed the first time or on the
\* session it returned, returns a session equal to the one the first call
\* returned, and leaves the blob the first call wrote.
UpdateIsIdempotent ==
    (pc = "done" /\ result.op = "updateSessionGameData twice") =>
        /\ ~result.raised
        /\ session = result.first
        /\ store = result.firstStore

\* C21 witness: the first call padded an empty gameData up to index 1, and
\* the second call was made on the session the first returned.
UpdatedTwiceWithPadding ==
    /\ pc = "done" /\ result.op = "updateSessionGameData twice"
    /\ result.on = "result"
    /\ result.questionIndex = 1
    /\ input.session.gameData = <<>>
    /\ Len(session.gameData) = 2
    /\ storeOk /\ store = stringify(session)

\* C22: after updateSessionGameData(session, i, content), gameData[i] is
\* content, gameData.length is max(old length, i + 1), every slot that was
\* there before, other than i, is what it was, every slot padded in below i
\* holds a copy of content, and the other fields of the session are what
\* they were.
UpdatePostconditions ==
    (pc = "updated" /\ ~result.raised) =>
        LET old == input.session.gameData
            new == session.gameData
            i == result.questionIndex
        IN /\ Len(new) = IF Len(old) > i + 1 THEN Len(old) ELSE i + 1
           /\ new[i + 1] = result.gameData
           /\ \A j \in 1..Len(old) : j # i + 1 => new[j] = old[j]
           /\ \A j \in (Len(old) + 1)..i : new[j] = result.gameData
           /\ \A j \in 1..(i + 1) : new[j] \in GameData
           /\ [session EXCEPT !.gameData = old] = input.session

\* C22 witness: content for index 1 was recorded in a session that had
\* none, so that slot 0 was padded in.
UpdatePaddedSlotZero ==
    /\ pc = "updated"
    /\ result.questionIndex = 1
    /\ input.session.gameData = <<>>
    /\ session.gameData = <<result.gameData, result.gameData>>

\* C23: createNewSession returns a session with currentQuestion = 1,
\* score = 0, no answers, no round data, isComplete = false and no
\* completedAt, and with a working store the blob is that session's text,
\* whatever the store held before.
CreateReturnsFreshSession ==
    (pc = "done" /\ result.op = "createNewSession") =>
        /\ ~result.raised
        /\ session.currentQuestion = 1 /\ session.score = 0
        /\ session.answers = <<>> /\ session.gameData = <<>>
        /\ session.isComplete = FALSE
        /\ ~Has(session, "completedAt")
        /\ session.id = nextId /\ session.startedAt = now
        /\ storeOk => (store = stringify(session) /\ store # input.store)

\* C23 witness: the store held an older session with an answer, and holds
\* the new session after the call.
CreateReplacedOlderSession ==
    /\ pc = "done" /\ result.op = "createNewSession"
    /\ storeOk
    /\ input.store = stringify(input.session)
    /\ input.session.answers # <<>>
    /\ parse(store).id = nextId /\ parse(store).answers = <<>>

\* C25: with a working store, after each of createNewSession,
\* updateSessionGameData, submitAnswer and advanceToNextQuestion that
\* returned, JSON.parse of the blob is exactly the session the operation
\* returned, and loadSession returns it.
BlobRoundTrips ==
    (pc \in {"updated", "done"} /\ storeOk /\ ~result.raised) =>
        /\ store.kind = "object"
        /\ parse(store) = session
        /\ loadSession(store, storeOk).value = session

\* C25 witness: advanceToNextQuestion completed the quiz, so that the blob
\* holds the completedAt key too; the store held text that is not JSON.
CompletedSessionRoundTrips ==
    /\ pc = "done" /\ result.op = "advanceToNextQuestion"
    /\ storeOk /\ input.store = Garbage
    /\ session.isComplete /\ Has(session, "completedAt")
    /\ input.session.answers # <<>> /\ input.session.gameData # <<>>
    /\ parse(store) = session

\* What each operation returns on the session it was handed.
OpsExpected ==
    CASE result.op = "createNewSession" -> createNewSession(nextId, now)
      [] result.op = "updateSessionGameData" ->
            updateSessionGameData(input.session, result.questionIndex,
                                  result.gameData)
      [] result.op = "submitAnswer" ->
            submitAnswer(input.session, result.selectedOption, now)
      [] result.op = "advanceToNextQuestion" ->
            advanceToNextQuestion(input.session, maxQ, now)

\* C26: when the store's setItem throws, createNewSession,
\* updateSessionGameData, submitAnswer (on a session with content for the
\* current round) and advanceToNextQuestion do not raise, return the
\* updated session, and leave the blob as it was.
FailingWriteIsNotFatal ==
    (/\ pc \in {"updated", "done"} /\ ~storeOk
     /\ result.op # "updateSessionGameData twice"
     /\ result.op = "submitAnswer" => ~submitAnswerThrows(input.session)) =>
        /\ ~result.raised
        /\ session = OpsExpected
        /\ store = input.store

\* C26 witness: submitAnswer logged an answer while the store threw; the
\* blob still is the session from before the call.
AnsweredWhileStoreThrows ==
    /\ pc = "done" /\ result.op = "submitAnswer" /\ ~storeOk
    /\ ~result.raised
    /\ Len(session.answers) = Len(input.session.answers) + 1
    /\ input.store = stringify(input.session)
    /\ store = input.store

\* The keys on which two sessions differ.
ChangedKeys(s1, s2) ==
    {k \in DOMAIN s1 \cup DOMAIN s2 :
        ~(k \in DOMAIN s1 /\ k \in DOMAIN s2 /\ s1[k] = s2[k])}

\* C33: submitAnswer changes only score and answers, advanceToNextQuestion
\* only currentQuestion, isComplete and completedAt, updateSessionGameData
\* only gameData; none changes id or startedAt, and the session object
\* handed to the call is after the call what it was before.
OperationsChangeOwnFields ==
    (/\ pc \in {"updated", "done"} /\ ~result.raised
     /\ result.op \in {"submitAnswer", "advanceToNextQuestion",
                       "updateSessionGameData"}) =>
        /\ result.argument = input.session
        /\ ChangedKeys(input.session, session) \subseteq
              CASE result.op = "submitAnswer" -> {"score", "answers"}
                [] result.op = "advanceToNextQuestion" ->
                      {"currentQuestion", "isComplete", "completedAt"}
                [] result.op = "updateSessionGameData" -> {"gameData"}
        /\ session.id = input.session.id
        /\ session.startedAt = input.session.startedAt

\* C33 witness: advanceToNextQuestion completed a quiz with an answer and
\* round content; pointer, isComplete and completedAt changed and the
\* session handed in is as it was.
AdvanceChangedItsFields ==
    /\ pc = "done" /\ result.op = "advanceToNextQuestion"
    /\ ChangedKeys(input.session, session) =
          {"currentQuestion", "isComplete", "completedAt"}
    /\ input.session.answers # <<>> /\ input.session.gameData # <<>>
    /\ result.argument = input.session
    /\ ~input.session.isComplete

(***************************************************************************)
(* The session-based GameGuesser component.  The component passes          *)
(* MAX_QUESTIONS = 10 to advanceToNextQuestion; the model plays quizzes of *)
(* maxQ = MaxRounds rounds.  A click runs its handler to the end before    *)
(* anything else happens; a loadGameForCurrentQuestion call runs to its    *)
(* await, stays in `inflight` with the session it was handed, and resumes  *)
(* when its fetch settles, in any order with the other calls.  The page    *)
(* can be reloaded at any time, which drops the component's state and the  *)
(* pending calls and runs the mount effect on what the store holds.  The   *)
(* clock stands still here: the component reads Date.now() only to stamp   *)
(* records, and the time checks of validateQuizIntegrity pass whenever the *)
(* clock does not run backwards.                                           *)
(***************************************************************************)
NoContent == [none |-> TRUE]        \* currentGame = null, currentScreenshot = ''

\* The messages getRandomGameWithScreenshot throws, as sequences of words
\* and punctuation marks.
TimedOutError == <<"Request", "timed", "out", ".", "Please", "try", "again", ".">>
NetworkError ==
    <<"Network", "error", ".", "Please", "check", "your", "connection", "and",
      "try", "again", ".">>
HttpError == <<"HTTP", "error", "!", "status", ":", "500">>
ServerSaidError == <<"No", "games", "could", "be", "fetched">>
FetchErrors == {TimedOutError, NetworkError, HttpError, ServerSaidError}

\* String.prototype.includes on such sequences.
Includes(text, words) ==
    \E i \in 1..(Len(text) - Len(words) + 1) :
        SubSeq(text, i, i + Len(words) - 1) = words

\* The messages of loadGameForCurrentQuestion's catch block.
TimeoutMessage ==
    <<"Request", "timed", "out", ".", "The", "server", "is", "taking", "too",
      "long", "to", "respond", ".", "Please", "try", "again", ".">>
NetworkMessage ==
    <<"Network", "connection", "issue", ".", "Please", "check", "your",
      "internet", "connection", "and", "try", "again", ".">>
ServerMessage(message) ==
    <<"Server", "error", ":">> \o message \o
    <<".", "Please", "try", "again", "later", ".">>

\* The catch block that shows no message.
errorMessageBlank(message) == <<>>

\* The message loadGameForCurrentQuestion's catch block shows.
errorMessage(message) ==
    IF Includes(message, <<"timeout">>) THEN TimeoutMessage
    ELSE IF Includes(message, <<"Network", "error">>) THEN NetworkMessage
    ELSE IF Includes(message, <<"HTTP", "error">>) THEN ServerMessage(message)
    ELSE message

\* The useState initial values.
UiInitial ==
    [sessionLoaded |-> FALSE, shown |-> NoContent, selectedOption |-> "",
     showAnswer |-> FALSE, loading |-> FALSE, error |-> <<>>]

\* The component creates a session on mount and one more on each restart.
MaxUiSessions == MaxIds + 1

UiUnused == <<storeOk, maxQ, nSubmit, nAdvance, nCorrect, input, result>>

InitUI ==
    /\ pc = "unmounted"
    /\ session = NoSession
    /\ store = Absent
    /\ storeOk = TRUE
    /\ now = 1
    /\ nextId = 1
    /\ maxQ = MaxRounds
    /\ nSubmit = 0 /\ nAdvance = 0 /\ nCorrect = 0
    /\ lastWrite = NoValue
    /\ ui = UiInitial
    /\ inflight = <<>>
    /\ input = NoValue
    /\ result = NoValue

\* loadGameForCurrentQuestion up to its await.
loadStart(u) ==
    [u EXCEPT !.loading = TRUE, !.error = <<>>, !.showAnswer = FALSE,
              !.selectedOption = ""]

\* existingSession.answers.some / find (a => a.questionIndex === currentIndex)
hasAnswered(s) ==
    \E i \in 1..Len(s.answers) : s.answers[i].questionIndex = s.currentQuestion - 1

foundAnswer(s) ==
    LET first == CHOOSE i \in 1..Len(s.answers) :
                    /\ s.answers[i].questionIndex = s.currentQuestion - 1
                    /\ \A j \in 1..(i - 1) :
                          s.answers[j].questionIndex # s.currentQuestion - 1
    IN s.answers[first]

hasGameData(s) ==
    s.currentQuestion - 1 >= 0 /\ s.currentQuestion <= Len(s.gameData)

\* What the component renders.
View ==
    IF ~ui.sessionLoaded \/ session = NoSession THEN "loadingQuiz"
    ELSE IF ui.error # <<>> THEN "error"
    ELSE IF session.isComplete THEN "final"
    ELSE IF ui.loading THEN "spinner"
    ELSE IF ui.shown # NoContent THEN "game"
    ELSE "noScreenshot"

\* The mount effect, resuming the stored session.
MountResume ==
    /\ pc = "unmounted"
    /\ LET r == loadSession(store, storeOk)
           existingSession == r.value
       IN /\ existingSession # NoSession
          /\ validateQuizIntegrity(existingSession, now)
          /\ session' = existingSession
          /\ store' = r.store
          /\ IF existingSession.isComplete
             THEN /\ ui' = [ui EXCEPT !.sessionLoaded = TRUE]
                  /\ inflight' = inflight
             ELSE LET answered ==
                          IF hasAnswered(existingSession)
                          THEN [ui EXCEPT
                                  !.showAnswer = TRUE,
                                  !.selectedOption =
                                      foundAnswer(existingSession).selectedOption]
                          ELSE ui
                  IN IF hasGameData(existingSession)
                     THEN /\ ui' = [answered EXCEPT
                                      !.shown = existingSession.gameData[
                                                    existingSession.currentQuestion],
                                      !.sessionLoaded = TRUE]
                          /\ inflight' = inflight
                     ELSE /\ ui' = [loadStart(answered) EXCEPT !.sessionLoaded = TRUE]
                          /\ inflight' = Append(inflight, existingSession)
    /\ pc' = "mounted"
    /\ UNCHANGED <<now, nextId, lastWrite>>
    /\ UNCHANGED UiUnused

\* The mount effect, creating a session.
MountCreate ==
    /\ pc = "unmounted"
    /\ nextId <= MaxUiSessions
    /\ LET r == loadSession(store, storeOk)
       IN /\ ~(r.value # NoSession /\ validateQuizIntegrity(r.value, now))
          /\ session' = createNewSession(nextId, now)
          /\ store' = saveSession(r.store, storeOk, session')
    /\ nextId' = nextId + 1
    /\ lastWrite' = "createNewSession"
    /\ ui' = [loadStart(ui) EXCEPT !.sessionLoaded = TRUE]
    /\ inflight' = Append(inflight, session')
    /\ pc' = "mounted"
    /\ UNCHANGED now
    /\ UNCHANGED UiUnused

\* The page is reloaded.
Reload ==
    /\ pc = "mounted"
    /\ pc' = "unmounted"
    /\ session' = NoSession
    /\ ui' = UiInitial
    /\ inflight' = <<>>
    /\ UNCHANGED <<store, now, nextId, lastWrite>>
    /\ UNCHANGED UiUnused

\* Try Again (error view) and Retry (loading view):
\* onClick={() => loadGameForCurrentQuestion(session)}
ClickTryAgain ==
    /\ pc = "mounted"
    /\ View = "error"
    /\ Len(inflight) < MaxInflight
    /\ ui' = loadStart(ui)
    /\ inflight' = Append(inflight, session)
    /\ UNCHANGED <<session, store, now, nextId, pc, lastWrite>>
    /\ UNCHANGED UiUnused

ClickRetry ==
    /\ pc = "mounted"
    /\ View = "spinner"
    /\ Len(inflight) < MaxInflight
    /\ ui' = loadStart(ui)
    /\ inflight' = Append(inflight, session)
    /\ UNCHANGED <<session, store, now, nextId, pc, lastWrite>>
    /\ UNCHANGED UiUnused

\* An option button: handleOptionSelect(option).
ClickOption ==
    /\ pc = "mounted"
    /\ View = "game"
    /\ ~ui.showAnswer
    /\ Len(session.answers) < MaxAnswers
    /\ \E option \in Names :
          IF submitAnswerThrows(session)
          THEN /\ ui' = [ui EXCEPT !.error = <<"Failed", "to", "submit", "answer",
                                                ".", "Please", "try", "again", ".">>]
               /\ UNCHANGED <<session, store, lastWrite>>
          ELSE /\ session' = submitAnswer(session, option, now)
               /\ store' = saveSession(store, storeOk, session')
               /\ lastWrite' = "submitAnswer"
               /\ ui' = [ui EXCEPT !.selectedOption = option, !.showAnswer = TRUE]
    /\ UNCHANGED <<now, nextId, pc, inflight>>
    /\ UNCHANGED UiUnused

\* Next Question / View Results: handleNextQuestion.
ClickNext ==
    /\ pc = "mounted"
    /\ View = "game"
    /\ ui.showAnswer
    /\ LET updatedSession == advanceToNextQuestion(session, maxQ, now)
       IN /\ session' = updatedSession
          /\ store' = saveSession(store, storeOk, updatedSession)
          /\ IF updatedSession.isComplete
             THEN UNCHANGED <<ui, inflight>>
             ELSE /\ Len(inflight) < MaxInflight
                  /\ ui' = loadStart(ui)
                  /\ inflight' = Append(inflight, updatedSession)
    /\ lastWrite' = "advanceToNextQuestion"
    /\ UNCHANGED <<now, nextId, pc>>
    /\ UNCHANGED UiUnused

\* Start New Quiz: restartGame.
ClickRestart ==
    /\ pc = "mounted"
    /\ View = "final"
    /\ nextId <= MaxUiSessions
    /\ Len(inflight) < MaxInflight
    /\ session' = createNewSession(nextId, now)
    /\ store' = saveSession(clearSession(store, storeOk), storeOk, session')
    /\ nextId' = nextId + 1
    /\ lastWrite' = "createNewSession"
    /\ ui' = loadStart([ui EXCEPT !.selectedOption = "", !.error = <<>>])
    /\ inflight' = Append(inflight, session')
    /\ UNCHANGED <<now, pc>>
    /\ UNCHANGED UiUnused

Remove(seq, k) == SubSeq(seq, 1, k - 1) \o SubSeq(seq, k + 1, Len(seq))

\* A pending loadGameForCurrentQuestion call resumes with the round content.
LoadSucceeds ==
    /\ pc = "mounted"
    /\ \E k \in 1..Len(inflight), gameData \in GameData :
          LET currentSession == inflight[k]
              updatedSession ==
                  updateSessionGameData(currentSession,
                                        currentSession.currentQuestion - 1, gameData)
          IN /\ session' = updatedSession
             /\ store' = saveSession(store, storeOk, updatedSession)
             /\ ui' = [ui EXCEPT !.shown = gameData, !.loading = FALSE]
             /\ inflight' = Remove(inflight, k)
    /\ lastWrite' = "updateSessionGameData"
    /\ UNCHANGED <<now, nextId, pc>>
    /\ UNCHANGED UiUnused

\* A pending loadGameForCurrentQuestion call resumes in its catch block.
LoadFailsWith(message) ==
    /\ pc = "mounted"
    /\ \E k \in 1..Len(inflight) :
          /\ ui' = [ui EXCEPT !.error = errorMessage(message), !.loading = FALSE]
          /\ inflight' = Remove(inflight, k)
    /\ UNCHANGED <<session, store, now, nextId, pc, lastWrite>>
    /\ UNCHANGED UiUnused

LoadFails == \E message \in FetchErrors : LoadFailsWith(message)

NextUI ==
    \/ MountResume
    \/ MountCreate
    \/ Reload
    \/ ClickTryAgain
    \/ ClickRetry
    \/ ClickOption
    \/ ClickNext
    \/ ClickRestart
    \/ LoadSucceeds
    \/ LoadFails

SpecUI == InitUI /\ [][NextUI]_vars

\* C2 as stated: a session persisted right after submitAnswer for the
\* current round is resumed on mount in the answered state: the same
\* session, showAnswer true, selectedOption the stored selection.
StoredSession == parse(store)

StoredJustAnswered ==
    /\ store.kind = "object"
    /\ lastWrite = "submitAnswer"
    /\ ~StoredSession.isComplete
    /\ hasAnswered(StoredSession)

ResumesAnsweredRound ==
    [][(pc = "unmounted" /\ pc' = "mounted" /\ StoredJustAnswered)
       => /\ session'.id = StoredSession.id
          /\ session'.answers = StoredSession.answers
          /\ ui'.showAnswer
          /\ ui'.selectedOption = foundAnswer(StoredSession).selectedOption]_vars

\* C4 as stated: in the component the session never holds two answers with
\* the same questionIndex.
OneAnswerPerRound ==
    session # NoSession =>
        \A i, j \in 1..Len(session.answers) :
            i # j => session.answers[i].questionIndex # session.answers[j].questionIndex

\* C27: when a round load fails, the session in memory and the blob are
\* what they were, the round content on show is what it was, the error
\* view with its Try Again button is rendered, and Try Again starts a load
\* for the session as it is, that is for the current round.
LoadFailureKeepsSession ==
    [][/\ LoadFails =>
            /\ session' = session /\ store' = store
            /\ ui'.shown = ui.shown
            /\ ~ui'.loading
            /\ View' = "error"
       /\ ClickTryAgain =>
            /\ session' = session /\ store' = store
            /\ inflight'[Len(inflight')] = session
            /\ inflight'[Len(inflight')].currentQuestion = session.currentQuestion
            /\ ui'.error = <<>> /\ ui'.loading]_vars

\* C27 witness: the only pending load failed on the network; the session
\* is persisted as it is, has no content for the current round, and the
\* error view is rendered.
RoundLoadFailed ==
    /\ pc = "mounted"
    /\ View = "error"
    /\ ui.error = NetworkMessage
    /\ inflight = <<>>
    /\ ~hasGameData(session)
    /\ store = stringify(session)

\* The message the failure classes are said to be shown as.
MessageOfClass(message) ==
    CASE message = TimedOutError -> TimeoutMessage
      [] message = NetworkError -> NetworkMessage
      [] message = HttpError -> ServerMessage(message)
      [] OTHER -> message

\* C28 as stated: a fetch that times out is shown the component's timeout
\* message, a network failure the network message, a non-OK status the
\* server-error message, and anything else its own message.
MessagePerFailureClass ==
    [][\A message \in FetchErrors :
          LoadFailsWith(message) => ui'.error = MessageOfClass(message)]_vars

\* C29 as stated: while the component stays mounted and is not restarted,
\* the answers recorded so far and the score stay in the component's
\* session and in the blob.
AnswerStaysUntilRestart ==
    [][(pc = "mounted" /\ pc' = "mounted" /\ nextId' = nextId) =>
          /\ Len(session'.answers) >= Len(session.answers)
          /\ SubSeq(session'.answers, 1, Len(session.answers)) = session.answers
          /\ session'.score >= session.score
          /\ Len(StoredSession'.answers) >= Len(StoredSession.answers)
          /\ SubSeq(StoredSession'.answers, 1, Len(StoredSession.answers))
                = StoredSession.answers
          /\ StoredSession'.score >= StoredSession.score]_vars

\* C30 as stated: while the component stays mounted and is not restarted, a
\* complete session stays complete and the session keeps its id, in memory
\* and in the blob.
CompleteStaysUntilRestart ==
    [][(pc = "mounted" /\ pc' = "mounted" /\ nextId' = nextId) =>
          /\ session.isComplete => session'.isComplete
          /\ session'.id = session.id
          /\ StoredSession.isComplete => StoredSession'.isComplete
          /\ StoredSession'.id = StoredSession.id]_vars

\* C31 as stated: in the component every recorded answer agrees with the
\* round content the session holds for its round:
\* answers[k].correctAnswer = gameData[answers[k].questionIndex].correctAnswer.
AnswersAgreeWithContent ==
    session # NoSession =>
        \A k \in 1..Len(session.answers) :
            /\ session.answers[k].questionIndex + 1 \in DOMAIN session.gameData
            /\ session.answers[k].correctAnswer =
                  session.gameData[session.answers[k].questionIndex + 1].correctAnswer

(***************************************************************************)
(* The curated selector (src/lib/curated-games-loader.ts).  The catalog is *)
(* the array `games` read from curated-games.json.  Every array the        *)
(* selector builds is a filter of another, then shuffled before it is cut  *)
(* or indexed at random, so the model keeps arrays of entries as sets of   *)
(* entries; `options`, which repeats a name when two entries carry it, is  *)
(* a bag of names.                                                         *)
(***************************************************************************)
HighRating == 82        \* getHighRatedGames(82)
LowRating == 80         \* getHighRatedGames(80)
FallbackRating == 78    \* getHighRatedGames(78)
MinPool == 4            \* yearGames.length < 4
DecoyCount == 3         \* slice(0, 3)
TightYears == 3         \* getGenreAndYearMatchingGames(correctGame, 3, ...)
BroadYears == 5         \* getBroadCategoryGames(correctGame, 5)
WideYears == 10         \* yearDiff <= 10

Abs(x) == IF x < 0 THEN 0 - x ELSE x
Min(a, b) == IF a <= b THEN a ELSE b

\* parseGenres on the genre texts the catalog entries of the model carry:
\* the text of a list parses to its elements, the empty text and a text
\* without quoted elements to no genre.
parseGenres(genresStr) ==
    CASE genresStr = "" -> {}
      [] genresStr = "['Platform']" -> {"Platform"}
      [] genresStr = "['Shooter']" -> {"Shooter"}
      [] genresStr = "['Visual Novel']" -> {"Visual Novel"}
      [] genresStr = "['Point-and-click', 'Music/Rhythm']"
            -> {"Point-and-click", "Music/Rhythm"}
      [] OTHER -> {}

normalizeGenre(genre) ==
    CASE genre = "Role-playing (RPG)" -> "RPG"
      [] genre = "Turn-based strategy (TBS)" -> "Strategy"
      [] genre = "Real Time Strategy (RTS)" -> "Strategy"
      [] genre = "Hack and slash/Beat 'em up" -> "Action"
      [] genre = "Point-and-click" -> "Adventure"
      [] genre = "Visual Novel" -> "Adventure"
      [] genre = "Card & Board Game" -> "Board"
      [] genre = "Music/Rhythm" -> "Music"
      [] OTHER -> genre

\* parseGenres(game.genres).map(normalizeGenre)
normalizedGenres(game) == {normalizeGenre(g) : g \in parseGenres(game.genres)}

\* What getRandomScreenshot does: it throws for a game without
\* screenshots and returns any one of them otherwise.
Thrown == <<"thrown">>
Undefined == <<"undefined">>

\* getRandomScreenshot without its length check: an empty array indexed
\* at 0 yields undefined.
getRandomScreenshotUnguarded(game) ==
    IF game.screenshots = {} THEN {Undefined} ELSE game.screenshots

getRandomScreenshot(game) ==
    IF game.screenshots = {} THEN {Thrown} ELSE game.screenshots

getGamesByYear(games, year) == {game \in games : game.year = year}

getHighRatedGames(games, minRating) == {game \in games : game.rating >= minRating}

getGenreAndYearMatchingGames(games, correctGame, yearRange, excludeIds) ==
    {game \in games :
        /\ game.id \notin excludeIds
        /\ ~(Abs(game.year - correctGame.year) > yearRange)
        /\ normalizedGenres(correctGame) \cap normalizedGenres(game) # {}}

\* categoryMap, in the order Object.entries walks it
categoryMap ==
    << [category |-> "Action",
        genres |-> {"Platform", "Shooter", "Fighting", "Action", "Arcade"}],
       [category |-> "RPG", genres |-> {"RPG", "Adventure", "Strategy"}],
       [category |-> "Strategy", genres |-> {"Strategy", "Tactical", "Simulator"}],
       [category |-> "Adventure", genres |-> {"Adventure", "Puzzle", "Point-and-click"}],
       [category |-> "Sports", genres |-> {"Sport", "Racing", "Simulator"}],
       [category |-> "Arcade", genres |-> {"Arcade", "Platform", "Shooter", "Action"}] >>

\* the positions of categoryMap that hold one of the correct game's genres
matchingCategories(correctGame) ==
    {k \in 1..Len(categoryMap) :
        normalizedGenres(correctGame) \cap categoryMap[k].genres # {}}

getBroadCategoryGames(games, correctGame, yearRange) ==
    IF matchingCategories(correctGame) = {}
    THEN {}
    ELSE LET first == CHOOSE k \in matchingCategories(correctGame) :
                         \A j \in matchingCategories(correctGame) : k <= j
             allowedGenres == categoryMap[first].genres
         IN {game \in games :
                /\ ~(Abs(game.year - correctGame.year) > yearRange)
                /\ normalizedGenres(game) \cap allowedGenres # {}}

\* The candidate pool that keeps the year's games whenever there is one.
candidatePoolOfAnyYear(games, randomYear) ==
    IF getGamesByYear(games, randomYear) # {}
    THEN getGamesByYear(games, randomYear)
    ELSE IF ~(Cardinality(getHighRatedGames(games, HighRating)) < MinPool)
    THEN getHighRatedGames(games, HighRating)
    ELSE getHighRatedGames(games, LowRating)

\* The candidate pool that stops at the first relaxation.
candidatePoolRelaxedOnce(games, randomYear) ==
    IF ~(Cardinality(getGamesByYear(games, randomYear)) < MinPool)
    THEN getGamesByYear(games, randomYear)
    ELSE getHighRatedGames(games, HighRating)

\* The candidate pool: lines 147-158.
candidatePool(games, randomYear) ==
    IF ~(Cardinality(getGamesByYear(games, randomYear)) < MinPool)
    THEN getGamesByYear(games, randomYear)
    ELSE IF ~(Cardinality(getHighRatedGames(games, HighRating)) < MinPool)
    THEN getHighRatedGames(games, HighRating)
    ELSE getHighRatedGames(games, LowRating)

\* shuffle, then slice(0, n): any n of the candidates, or all of them
\* when they are fewer.
sliceOfShuffled(candidates, n) ==
    {picked \in SUBSET candidates :
        Cardinality(picked) = Min(n, Cardinality(candidates))}

ids(entries) == {g.id : g \in entries}

\* Phase 2 to 4 candidates that leave out only the correct game.
notYetChosenButCorrect(entries, correctGame, otherGames) ==
    {g \in entries : g.id # correctGame.id}

\* Phase 2 to 4 candidates: not the correct game, none of otherGames.
notYetChosen(entries, correctGame, otherGames) ==
    {g \in entries : g.id # correctGame.id /\ g.id \notin ids(otherGames)}

withinYears(games, correctGame, yearRange) ==
    {g \in games : Abs(g.year - correctGame.year) <= yearRange}

\* The names of [correctGame.name, ...otherGames.map(g => g.name)], each
\* with the number of times it occurs; otherGames is what the four phases
\* pushed.
namesOf(entries) ==
    [n \in {g.name : g \in entries} |-> Cardinality({g \in entries : g.name = n})]

optionsOf(correctGame, p1, p2, p3, p4) ==
    SetToBag({correctGame.name}) (+) namesOf(p1) (+) namesOf(p2)
        (+) namesOf(p3) (+) namesOf(p4)

\* Phase 1 to 4 of the decoy search: what each phase adds to otherGames.
phase1(games, correctGame) ==
    sliceOfShuffled(
        getGenreAndYearMatchingGames(games, correctGame, TightYears, {correctGame.id}),
        DecoyCount)

\* Phase 2 run whatever phase 1 supplied.
phase2Always(games, correctGame, otherGames) ==
    sliceOfShuffled(
        notYetChosen(getBroadCategoryGames(games, correctGame, BroadYears),
                     correctGame, otherGames),
        DecoyCount)

phase2(games, correctGame, otherGames) ==
    IF Cardinality(otherGames) < DecoyCount
    THEN sliceOfShuffled(
            notYetChosen(getBroadCategoryGames(games, correctGame, BroadYears),
                         correctGame, otherGames),
            DecoyCount - Cardinality(otherGames))
    ELSE {{}}

phase3(games, correctGame, otherGames) ==
    IF Cardinality(otherGames) < DecoyCount
    THEN sliceOfShuffled(
            notYetChosen(withinYears(games, correctGame, WideYears),
                         correctGame, otherGames),
            DecoyCount - Cardinality(otherGames))
    ELSE {{}}

\* The decoy search without its final fallback.
phase4Never(games, correctGame, otherGames) == {{}}

phase4(games, correctGame, otherGames) ==
    IF Cardinality(otherGames) < DecoyCount
    THEN sliceOfShuffled(
            notYetChosen(getHighRatedGames(games, FallbackRating),
                         correctGame, otherGames),
            DecoyCount - Cardinality(otherGames))
    ELSE {{}}

(***************************************************************************)
(* Catalogs.  Entries carry what the selector reads: id, name, year,       *)
(* rating, genres and screenshots.  The entries of the model stand at      *)
(* years 0, 5, 6 and 11 apart and at each rating threshold and below the   *)
(* lowest.  Most are platform games, some carry another genre text; one    *)
(* has two screenshots and one has none; one is a remake that carries the  *)
(* name of an entry of another year.  A catalog is any MaxCatalog or fewer *)
(* of them.                                                                *)
(***************************************************************************)
MaxCatalog == 5

CatalogYears == <<2000, 2005, 2011>>
CatalogRatings == <<77, 78, 80, 82>>
RandomYears == {1980, 2000, 2005, 2011}     \* within 1980..2024

Title(id) == <<"title", id>>
Shots(id, n) == {<<"shot", id, k>> : k \in 1..n}

Entry(id, name, year, rating, genres, screenshots) ==
    [id |-> id, name |-> name, year |-> year, rating |-> rating,
     genres |-> genres, screenshots |-> screenshots]

\* The platform game of year y and rating r: entry 4 has two screenshots,
\* entry 8 has none, entry 11 is the remake of entry 4.
PlatformEntry(y, r) ==
    LET id == 4 * (y - 1) + r
    IN Entry(id, IF id = 11 THEN Title(4) ELSE Title(id),
             CatalogYears[y], CatalogRatings[r], "['Platform']",
             Shots(id, CASE id = 4 -> 2 [] id = 8 -> 0 [] OTHER -> 1))

PlatformEntries == {PlatformEntry(y, r) : y \in 1..3, r \in 1..4}

NoScreenshotEntry == PlatformEntry(2, 4)

RemakeEntry == PlatformEntry(3, 3)

OtherGenreEntries ==
    {Entry(13, Title(13), 2000, 77, "['Shooter']", Shots(13, 1)),
     Entry(14, Title(14), 2005, 77, "['Shooter']", Shots(14, 1)),
     Entry(15, Title(15), 2000, 82, "['Visual Novel']", Shots(15, 1)),
     Entry(16, Title(16), 2000, 77, "['Point-and-click', 'Music/Rhythm']",
           Shots(16, 1))}

AllEntries == PlatformEntries \cup OtherGenreEntries

Catalogs == {c \in SUBSET AllEntries : Cardinality(c) <= MaxCatalog}

InitSelect ==
    /\ input \in Catalogs
    /\ pc = "call"
    /\ result = NoResult
    /\ session = NoSession
    /\ store = Absent
    /\ storeOk = TRUE
    /\ now = 1
    /\ nextId = 1
    /\ maxQ = MaxRounds
    /\ nSubmit = 0 /\ nAdvance = 0 /\ nCorrect = 0
    /\ lastWrite = NoValue
    /\ ui = NoValue
    /\ inflight = <<>>

SelectUnused ==
    <<session, store, storeOk, now, nextId, maxQ, nSubmit, nAdvance, nCorrect,
      lastWrite, ui, inflight, input>>

\* The catch block rethrows what the try block threw, prefixed.
failedToLoad(message) == <<"Failed to load game: ">> \o message

\* getRandomGameWithScreenshot throws at line 161.
SelectFailsEmpty ==
    /\ pc = "call"
    /\ \E randomYear \in RandomYears :
          /\ candidatePool(input, randomYear) = {}
          /\ result' = [raised |-> TRUE, randomYear |-> randomYear,
                        yearGames |-> candidatePool(input, randomYear),
                        message |->
                            failedToLoad(<<"No games found with the specified criteria">>)]
    /\ pc' = "done"
    /\ UNCHANGED SelectUnused

\* getRandomScreenshot throws at line 25.
SelectFailsNoScreenshot ==
    /\ pc = "call"
    /\ \E randomYear \in RandomYears :
          \E correctGame \in candidatePool(input, randomYear) :
              /\ Thrown \in getRandomScreenshot(correctGame)
              /\ result' = [raised |-> TRUE, randomYear |-> randomYear,
                            yearGames |-> candidatePool(input, randomYear),
                            correctGame |-> correctGame,
                            message |->
                                failedToLoad(<<"No screenshots available for ",
                                               correctGame.name>>)]
    /\ pc' = "done"
    /\ UNCHANGED SelectUnused

\* getRandomGameWithScreenshot returns.  Beside the returned object the
\* result keeps the locals randomYear, yearGames, correctGame and, phase
\* by phase, otherGames.
SelectReturns ==
    /\ pc = "call"
    /\ \E randomYear \in RandomYears :
          \E correctGame \in candidatePool(input, randomYear) :
          \E screenshot \in getRandomScreenshot(correctGame) \ {Thrown} :
          \E p1 \in phase1(input, correctGame) :
          \E p2 \in phase2(input, correctGame, p1) :
          \E p3 \in phase3(input, correctGame, p1 \cup p2) :
          \E p4 \in phase4(input, correctGame, p1 \cup p2 \cup p3) :
              result' =
                [raised |-> FALSE, randomYear |-> randomYear,
                 yearGames |-> candidatePool(input, randomYear),
                 correctGame |-> correctGame,
                 otherGames |-> <<p1, p2, p3, p4>>,
                 value |->
                    [game |-> [id |-> correctGame.id, name |-> correctGame.name],
                     screenshot |-> screenshot,
                     options |-> optionsOf(correctGame, p1, p2, p3, p4),
                     correctAnswer |-> correctGame.name]]
    /\ pc' = "done"
    /\ UNCHANGED SelectUnused

NextSelect ==
    \/ SelectFailsEmpty
    \/ SelectFailsNoScreenshot
    \/ SelectReturns

SpecSelect == InitSelect /\ [][NextSelect]_vars

(***************************************************************************)
(* Properties of the curated selector under SpecSelect.                    *)
(***************************************************************************)
Returned == pc = "done" /\ ~result.raised

Decoys == result.otherGames[1] \cup result.otherGames[2]
            \cup result.otherGames[3] \cup result.otherGames[4]

UniqueNames(games) == \A g, h \in games : g.name = h.name => g = h

\* C14: over a catalog whose names are unique, options holds correctAnswer
\* exactly once and no name twice; the decoys of the four phases are
\* pairwise distinct entries of the catalog and none is the correct entry.
OptionsHoldNoDuplicate ==
    (Returned /\ UniqueNames(input)) =>
        /\ BagIn(result.value.correctAnswer, result.value.options)
        /\ CopiesIn(result.value.correctAnswer, result.value.options) = 1
        /\ \A n \in BagToSet(result.value.options) :
              CopiesIn(n, result.value.options) = 1
        /\ \A i, j \in 1..4 :
              i # j => result.otherGames[i] \cap result.otherGames[j] = {}
        /\ Decoys \subseteq input
        /\ \A d \in Decoys : d.id # result.value.game.id
        /\ BagToSet(result.value.options) =
              {result.value.correctAnswer} \cup {d.name : d \in Decoys}

\* C14 witness: names are unique and the three decoys came from three
\* different phases.
ThreePhasesThreeDecoys ==
    /\ Returned /\ UniqueNames(input)
    /\ Cardinality(Decoys) = 3
    /\ Cardinality({i \in 1..4 : result.otherGames[i] # {}}) = 3

\* C15: the pool the correct entry is drawn from is the entries of the
\* target year when there are at least 4 of them; otherwise the entries
\* rated 82 or more, of any year, when there are at least 4 of them;
\* otherwise the entries rated 80 or more.  The correct entry is one of
\* that pool.
OfTargetYear == {g \in input : g.year = result.randomYear}

RatedAtLeast(r) == {g \in input : g.rating >= r}

PoolByRelaxation ==
    pc = "done" =>
        /\ result.yearGames =
              IF Cardinality(OfTargetYear) >= 4 THEN OfTargetYear
              ELSE IF Cardinality(RatedAtLeast(82)) >= 4 THEN RatedAtLeast(82)
              ELSE RatedAtLeast(80)
        /\ "correctGame" \in DOMAIN result => result.correctGame \in result.yearGames
        /\ ~result.raised =>
              \E g \in result.yearGames :
                  g.id = result.value.game.id /\ g.name = result.value.correctAnswer

\* C15 witness: the target year has entries but fewer than 4, four entries
\* are rated 82 or more, and the correct entry is one of these and of
\* another year.
CorrectFromHighRated ==
    /\ Returned
    /\ Cardinality(OfTargetYear) \in 1..3
    /\ Cardinality(RatedAtLeast(82)) = 4
    /\ result.correctGame.rating >= 82
    /\ result.correctGame.year # result.randomYear

\* C16: the selector fails with the empty-catalog error only when the
\* final relaxed pool is empty: with an entry rated 80 or more in the
\* catalog it does not raise that error, also when the target year has 1 to
\* 3 entries, and then options has 4 names or, when fewer entries are
\* available as decoys (within 10 years of the correct entry, or rated 80
\* or more), the correct name and one name for each of these.
EmptyCatalogError ==
    /\ pc = "done" /\ result.raised
    /\ result.message = failedToLoad(<<"No games found with the specified criteria">>)

AvailableDecoys ==
    {g \in input :
        /\ g.id # result.correctGame.id
        /\ (Abs(g.year - result.correctGame.year) <= 10 \/ g.rating >= 80)}

EmptyErrorOnlyOnEmptyPool ==
    pc = "done" =>
        /\ EmptyCatalogError => (result.yearGames = {} /\ RatedAtLeast(80) = {})
        /\ RatedAtLeast(80) # {} => ~EmptyCatalogError
        /\ (RatedAtLeast(80) # {} /\ Cardinality(OfTargetYear) \in 1..3 /\ ~result.raised)
              => BagCardinality(result.value.options)
                    >= Min(4, 1 + Cardinality(AvailableDecoys))

\* C16 witness: the catalog is 3 entries of 2005, the target year is 2005,
\* and the round offers all 3 names.
ThreeEntriesOfTargetYear ==
    /\ Returned
    /\ result.randomYear = 2005
    /\ Cardinality(input) = 3 /\ OfTargetYear = input
    /\ BagCardinality(result.value.options) = 3

\* C17: options never has more than 4 names; it has exactly 4 when at least
\* 3 entries other than the correct one are eligible under some decoy tier
\* (within 10 years of the correct entry, or rated at least the fallback
\* tier's threshold), and 1 + the number of eligible entries otherwise.
EligibleDecoys ==
    {g \in input :
        /\ g.id # result.correctGame.id
        /\ (Abs(g.year - result.correctGame.year) <= 10 \/ g.rating >= FallbackRating)}

DecoysMeetATier ==
    Returned =>
        \A d \in Decoys :
            \/ Abs(d.year - result.correctGame.year) <= 10
            \/ d.rating >= 80

\* C19: the cascade is ordered.  Phase 1 decoys share a normalized genre
\* with the correct entry and lie within 3 years of it; a decoy of phase 2,
\* 3 or 4 is present only if the earlier phases together supplied fewer
\* than 3, having taken every entry of the first tier; every decoy of every
\* phase is offered; so with 3 or more entries in the first tier all 3
\* decoys are of that tier.
GenreAndYearTier ==
    {g \in input :
        /\ g.id # result.correctGame.id
        /\ Abs(g.year - result.correctGame.year) <= 3
        /\ \E a \in normalizedGenres(result.correctGame) : a \in normalizedGenres(g)}

SuppliedBefore(k) == UNION {result.otherGames[j] : j \in 1..(k - 1)}

CascadeOrdered ==
    Returned =>
        /\ result.otherGames[1] \subseteq GenreAndYearTier
        /\ \A k \in 2..4 :
              result.otherGames[k] # {} =>
                  /\ Cardinality(SuppliedBefore(k)) < 3
                  /\ result.otherGames[1] = GenreAndYearTier
        /\ \A d \in Decoys : BagIn(d.name, result.value.options)
        /\ Cardinality(GenreAndYearTier) >= 3 =>
              (Cardinality(Decoys) = 3 /\ Decoys \subseteq GenreAndYearTier)

\* C19 witness: three entries are of the first tier, a shooter of the same
\* years is of the second only, and the three decoys are the first three.
AllDecoysOfFirstTier ==
    /\ Returned
    /\ Cardinality(GenreAndYearTier) = 3
    /\ Decoys = GenreAndYearTier
    /\ \E g \in input :
          /\ g.genres = "['Shooter']"
          /\ g \in getBroadCategoryGames(input, result.correctGame, BroadYears)

\* C20: an entry without screenshots is never surfaced as the correct
\* answer.  When the selected correct entry has none the selector fails and
\* returns no round; a returned round's screenshot is one of the
\* screenshots of its correct entry.
CorrectEntryHasScreenshot ==
    (pc = "done" /\ "correctGame" \in DOMAIN result) =>
        /\ result.correctGame.screenshots = {} =>
              (result.raised /\ "value" \notin DOMAIN result)
        /\ ~result.raised =>
              /\ result.value.game.id = result.correctGame.id
              /\ result.value.screenshot \in result.correctGame.screenshots
              /\ \A g \in input :
                    g.id = result.value.game.id =>
                        result.value.screenshot \in g.screenshots

\* C20 witness: the entry without screenshots was selected and the call
\* failed naming it.
FailedOnEntryWithoutScreenshot ==
    /\ pc = "done" /\ result.raised
    /\ "correctGame" \in DOMAIN result
    /\ result.correctGame = NoScreenshotEntry
    /\ result.message =
          failedToLoad(<<"No screenshots available for ", NoScreenshotEntry.name>>)

(***************************************************************************)
(* fetchWithRetry of the RAWG route handler (route.ts).  `input` holds the *)
(* retries argument, `result` the loop index i, what each fetch attempt    *)
(* made so far came to, and what the call returned or threw.  An attempt   *)
(* ends with a response or with fetch throwing (the 10 s AbortSignal, a    *)
(* network failure); the call then returns, throws, or sleeps before the   *)
(* next turn of the loop.                                                  *)
(***************************************************************************)
MaxRetries == 3     \* retries ranges over 0..MaxRetries

Statuses == {200, 404, 500}
FetchThrows == {"TimeoutError", "TypeError"}
Outcomes == [status : Statuses] \cup [threw : FetchThrows]

ok(response) == response.status >= 200 /\ response.status <= 299

\* The catch block: rethrow on the last turn, otherwise sleep and loop.
catch(i, retries, error) ==
    IF i = retries - 1 THEN [pc |-> "thrown", error |-> error]
    ELSE [pc |-> "sleeping"]

\* The loop body that gives up on the first server error.
afterAttemptGivingUp(i, retries, outcome) ==
    IF "threw" \in DOMAIN outcome THEN catch(i, retries, outcome.threw)
    ELSE IF ok(outcome) THEN [pc |-> "returned", value |-> outcome]
    ELSE IF outcome.status >= 500 /\ outcome.status < 600
    THEN [pc |-> "thrown", error |-> "Server error"]
    ELSE catch(i, retries, "Client error")

\* The loop body once the attempt of turn i has settled.  Both throw
\* statements stand inside the try block, so the catch block gets them.
afterAttempt(i, retries, outcome) ==
    IF "threw" \in DOMAIN outcome THEN catch(i, retries, outcome.threw)
    ELSE IF ok(outcome) THEN [pc |-> "returned", value |-> outcome]
    ELSE IF outcome.status >= 500 /\ outcome.status < 600
    THEN IF i = retries - 1
         THEN catch(i, retries, "Server error")
         ELSE [pc |-> "sleeping"]
    ELSE catch(i, retries, "Client error")

FetchUnused == <<session, store, storeOk, now, nextId, maxQ, nSubmit, nAdvance,
                 nCorrect, lastWrite, ui, inflight>>

InitFetch ==
    /\ input \in [retries : 0..MaxRetries]
    /\ result = [i |-> 0, attempts |-> <<>>]
    /\ pc = "loop"
    /\ session = NoSession
    /\ store = Absent
    /\ storeOk = TRUE
    /\ now = 1
    /\ nextId = 1
    /\ maxQ = MaxRounds
    /\ nSubmit = 0 /\ nAdvance = 0 /\ nCorrect = 0
    /\ lastWrite = NoValue
    /\ ui = NoValue
    /\ inflight = <<>>

\* One turn of the for loop up to where the function returns, throws or
\* starts to sleep.
FetchAttempt ==
    /\ pc = "loop"
    /\ result.i < input.retries
    /\ \E outcome \in Outcomes :
          LET r == afterAttempt(result.i, input.retries, outcome)
              made == [result EXCEPT !.attempts = Append(@, outcome)]
          IN /\ pc' = r.pc
             /\ result' = IF r.pc = "returned" THEN With(made, "value", r.value)
                          ELSE IF r.pc = "thrown" THEN With(made, "error", r.error)
                          ELSE made
    /\ UNCHANGED input
    /\ UNCHANGED FetchUnused

\* The timer of the backoff fires: i++.
FetchWake ==
    /\ pc = "sleeping"
    /\ pc' = "loop"
    /\ result' = [result EXCEPT !.i = @ + 1]
    /\ UNCHANGED input
    /\ UNCHANGED FetchUnused

\* The loop ended without a return or a throw.
FetchExhausted ==
    /\ pc = "loop"
    /\ ~(result.i < input.retries)
    /\ pc' = "thrown"
    /\ result' = With(result, "error", "Max retries exceeded")
    /\ UNCHANGED input
    /\ UNCHANGED FetchUnused

NextFetch ==
    \/ FetchAttempt
    \/ FetchWake
    \/ FetchExhausted

SpecFetch == InitFetch /\ [][NextFetch]_vars

\* Every attempt settles (fetch is given a 10 s AbortSignal) and every
\* backoff timer fires.
SpecFetchFair == SpecFetch /\ WF_vars(NextFetch)

FetchDone == pc \in {"returned", "thrown"}

\* C34 as stated: an attempt that gets a 4xx response is the last one, and
\* the call fails with the client error.
ClientErrorNotRetried ==
    \A j \in 1..Len(result.attempts) :
        ("status" \in DOMAIN result.attempts[j] /\ result.attempts[j].status = 404) =>
            /\ j = Len(result.attempts)
            /\ pc = "thrown" /\ result.error = "Client error"

Failed(outcome) == "threw" \in DOMAIN outcome \/ ~ok(outcome)

\* C35: a fetchWithRetry call makes at most `retries` attempts and ends:
\* it returns the first response that is ok, every attempt before the last
\* one made has failed, it goes on after a 5xx response or a thrown fetch
\* error while attempts remain, and it throws once attempt number `retries`
\* has failed.
FetchEndsWithinRetries ==
    /\ [](/\ Len(result.attempts) <= input.retries
          /\ \A j \in 1..(Len(result.attempts) - 1) : Failed(result.attempts[j])
          /\ pc = "returned" =>
                /\ result.value = result.attempts[Len(result.attempts)]
                /\ ok(result.value)
          /\ (/\ result.attempts # <<>>
              /\ Failed(result.attempts[Len(result.attempts)])
              /\ Len(result.attempts) = input.retries) => pc = "thrown"
          /\ (/\ result.attempts # <<>>
              /\ LET last == result.attempts[Len(result.attempts)]
                 IN "threw" \in DOMAIN last \/ last.status = 500
              /\ Len(result.attempts) < input.retries) => pc \in {"sleeping", "loop"}
          /\ pc = "thrown" => Len(result.attempts) = input.retries)
    /\ <>FetchDone

\* C35 witness: of three attempts the first ended in a 5xx response, the
\* second in a thrown timeout, and the third response was returned.
ReturnedOnThirdAttempt ==
    /\ pc = "returned"
    /\ input.retries = 3
    /\ Len(result.attempts) = 3
    /\ result.attempts[1] = [status |-> 500]
    /\ result.attempts[2] = [threw |-> "TimeoutError"]
    /\ result.value = [status |-> 200]

(***************************************************************************)
(* The random-page sampling loop of the RAWG route handlers: route.ts      *)
(* draws 10 pages of at most 40000, the older handler (next.config.ts) 5   *)
(* pages of totalPages.  `input` holds the game count the API returned and *)
(* the handler's numbers, `result` the Set randomPages.                    *)
(***************************************************************************)
MaxCount == 220         \* the API's game count ranges over 0..MaxCount

PageSize == 20          \* Math.ceil(totalGames / 20)
PageCap == 40000        \* Math.min(totalPages, 40000)
PagesWanted == 10       \* randomPages.size < 10
PagesWantedOlder == 5   \* randomPages.size < 5

\* Math.ceil(totalGames / 20)
totalPages(totalGames) == (totalGames + PageSize - 1) \div PageSize

\* The page limit of the two handlers.
maxPage(handler, totalGames) ==
    IF handler = "route" THEN Min(totalPages(totalGames), PageCap)
    ELSE totalPages(totalGames)

\* Math.floor(Math.random() * maxPage) + 1, Math.random() being in [0, 1)
randomPage(limit) == IF limit <= 0 THEN {1} ELSE 1..limit

Handlers ==
    {[handler |-> "route", wanted |-> PagesWanted],
     [handler |-> "older", wanted |-> PagesWantedOlder]}

PagesUnused == <<session, store, storeOk, now, nextId, maxQ, nSubmit, nAdvance,
                 nCorrect, lastWrite, ui, inflight>>

InitPages ==
    /\ \E h \in Handlers, count \in 0..MaxCount :
          input = [handler |-> h.handler, wanted |-> h.wanted, count |-> count]
    /\ result = {}
    /\ pc = "sampling"
    /\ session = NoSession
    /\ store = Absent
    /\ storeOk = TRUE
    /\ now = 1
    /\ nextId = 1
    /\ maxQ = MaxRounds
    /\ nSubmit = 0 /\ nAdvance = 0 /\ nCorrect = 0
    /\ lastWrite = NoValue
    /\ ui = NoValue
    /\ inflight = <<>>

\* One turn of the while loop; adding a page the Set holds changes nothing.
PagesAdd ==
    /\ pc = "sampling"
    /\ Cardinality(result) < input.wanted
    /\ \E page \in randomPage(maxPage(input.handler, input.count)) :
          result' = result \cup {page}
    /\ UNCHANGED <<pc, input>>
    /\ UNCHANGED PagesUnused

\* The loop condition fails.
PagesDone ==
    /\ pc = "sampling"
    /\ ~(Cardinality(result) < input.wanted)
    /\ pc' = "done"
    /\ UNCHANGED <<result, input>>
    /\ UNCHANGED PagesUnused

NextPages ==
    \/ PagesAdd
    \/ PagesDone

SpecPages == InitPages /\ [][NextPages]_vars

\* C36 as stated: for every game count the loop ends, with the wanted
\* number of distinct pages, each within 1..maxPage.  While the loop runs
\* a turn can still add a page; every page drawn is in 1..maxPage; after
\* the loop the Set holds the wanted number of pages.
SamplingEnds ==
    LET limit == maxPage(input.handler, input.count)
    IN /\ (pc = "sampling" /\ Cardinality(result) < input.wanted) =>
             \E page \in randomPage(limit) : page \notin result
       /\ result \subseteq 1..limit
       /\ pc = "done" => Cardinality(result) = input.wanted

(***************************************************************************)
(* The GameGuesser component without a session                             *)
(* (src/components/game-guesser.tsx).  `ui` holds its React state, one     *)
(* record field per useState; `inflight` holds the loadNewGame calls that  *)
(* await getRandomGameWithScreenshot; `result.answered` counts the option  *)
(* clicks that revealed an answer since the last restart.  A handler runs  *)
(* to its end before React renders again, and the state updates that       *)
(* follow the await are applied together.                                  *)
(***************************************************************************)
MAX_QUESTIONS == 5

\* What getRandomGameWithScreenshot resolves to.
GuesserGames ==
    { [game |-> name, screenshot |-> "shot", options |-> <<"A", "B">>,
       correctAnswer |-> name] : name \in Names }

\* The values of the useState calls.
GuesserState ==
    [currentGame |-> NoValue, currentScreenshot |-> "", options |-> <<>>,
     correctAnswer |-> "", selectedOption |-> "", showAnswer |-> FALSE,
     loading |-> FALSE, score |-> 0, currentQuestion |-> 1,
     gameComplete |-> FALSE, error |-> <<>>]

\* loadNewGame up to its await.
loadNewGame(s) ==
    [s EXCEPT !.loading = TRUE, !.error = <<>>, !.showAnswer = FALSE,
              !.selectedOption = ""]

handleOptionSelectUnguarded(s, option) ==
    [s EXCEPT !.selectedOption = option,
              !.score = IF option = s.correctAnswer THEN @ + 1 ELSE @,
              !.showAnswer = TRUE]

handleOptionSelect(s, option) ==
    IF s.showAnswer
    THEN s
    ELSE [s EXCEPT !.selectedOption = option,
                   !.score = IF option = s.correctAnswer THEN @ + 1 ELSE @,
                   !.showAnswer = TRUE]

\* handleNextQuestion; its second branch goes on to call loadNewGame.
handleNextQuestion(s) ==
    IF s.currentQuestion >= MAX_QUESTIONS
    THEN [s EXCEPT !.gameComplete = TRUE]
    ELSE loadNewGame([s EXCEPT !.currentQuestion = @ + 1])

restartGame(s) ==
    loadNewGame([s EXCEPT !.score = 0, !.currentQuestion = 1,
                          !.gameComplete = FALSE, !.showAnswer = FALSE,
                          !.selectedOption = ""])

\* What the component renders: the error card first, then the final score
\* screen, then the game card.
ErrorShown(s) == s.error # <<>>
CompleteShown(s) == ~ErrorShown(s) /\ s.gameComplete
GameCardShown(s) ==
    ~ErrorShown(s) /\ ~s.gameComplete /\ ~s.loading /\ s.currentScreenshot # ""
OptionsShown(s) == GameCardShown(s) /\ ~s.showAnswer /\ Len(s.options) > 0
NextShown(s) == GameCardShown(s) /\ s.showAnswer /\ s.currentGame # NoValue

GuesserUnused == <<session, store, storeOk, now, nextId, maxQ, nSubmit,
                   nAdvance, nCorrect, lastWrite, input>>

InitGuesser ==
    /\ pc = "unmounted"
    /\ ui = GuesserState
    /\ inflight = <<>>
    /\ result = [answered |-> 0]
    /\ input = NoValue
    /\ session = NoSession
    /\ store = Absent
    /\ storeOk = TRUE
    /\ now = 1
    /\ nextId = 1
    /\ maxQ = MaxRounds
    /\ nSubmit = 0 /\ nAdvance = 0 /\ nCorrect = 0
    /\ lastWrite = NoValue

\* The effect that runs once after the first render.
GuesserMount ==
    /\ pc = "unmounted"
    /\ pc' = "mounted"
    /\ ui' = loadNewGame(ui)
    /\ inflight' = Append(inflight, "loadNewGame")
    /\ UNCHANGED result
    /\ UNCHANGED GuesserUnused

\* The awaited request resolves: the try block, then finally.
GuesserLoadSucceeds ==
    /\ inflight # <<>>
    /\ \E g \in GuesserGames :
          ui' = [ui EXCEPT !.currentGame = g.game,
                           !.currentScreenshot = g.screenshot,
                           !.options = g.options,
                           !.correctAnswer = g.correctAnswer,
                           !.loading = FALSE]
    /\ inflight' = Tail(inflight)
    /\ UNCHANGED <<pc, result>>
    /\ UNCHANGED GuesserUnused

\* The awaited request rejects: the catch block, then finally.
GuesserLoadFails ==
    /\ inflight # <<>>
    /\ \E message \in FetchErrors :
          ui' = [ui EXCEPT !.error = message, !.loading = FALSE]
    /\ inflight' = Tail(inflight)
    /\ UNCHANGED <<pc, result>>
    /\ UNCHANGED GuesserUnused

GuesserClickOptionWith(option) ==
    /\ pc = "mounted"
    /\ OptionsShown(ui)
    /\ ui' = handleOptionSelect(ui, option)
    /\ result' = [result EXCEPT !.answered =
                     IF ui'.showAnswer /\ ~ui.showAnswer THEN @ + 1 ELSE @]
    /\ UNCHANGED <<pc, inflight>>
    /\ UNCHANGED GuesserUnused

GuesserClickOption ==
    \E k \in 1..Len(ui.options) : GuesserClickOptionWith(ui.options[k])

GuesserClickNext ==
    /\ pc = "mounted"
    /\ NextShown(ui)
    /\ ui' = handleNextQuestion(ui)
    /\ inflight' = IF ui.currentQuestion >= MAX_QUESTIONS
                   THEN inflight
                   ELSE Append(inflight, "loadNewGame")
    /\ UNCHANGED <<pc, result>>
    /\ UNCHANGED GuesserUnused

GuesserClickRestart ==
    /\ pc = "mounted"
    /\ CompleteShown(ui)
    /\ ui' = restartGame(ui)
    /\ inflight' = Append(inflight, "loadNewGame")
    /\ result' = [result EXCEPT !.answered = 0]
    /\ UNCHANGED pc
    /\ UNCHANGED GuesserUnused

GuesserClickTryAgain ==
    /\ pc = "mounted"
    /\ ErrorShown(ui)
    /\ ui' = loadNewGame(ui)
    /\ inflight' = Append(inflight, "loadNewGame")
    /\ UNCHANGED <<pc, result>>
    /\ UNCHANGED GuesserUnused

NextGuesser ==
    \/ GuesserMount
    \/ GuesserLoadSucceeds
    \/ GuesserLoadFails
    \/ GuesserClickOption
    \/ GuesserClickNext
    \/ GuesserClickRestart
    \/ GuesserClickTryAgain

SpecGuesser == InitGuesser /\ [][NextGuesser]_vars

\* C37: in every state 1 <= currentQuestion <= MAX_QUESTIONS and
\* 0 <= score <= questions answered <= MAX_QUESTIONS, and a click on an
\* option while the answer is revealed changes nothing; in every step the
\* score changes only by 1 on a click equal to correctAnswer or to 0 on a
\* restart, gameComplete turns true exactly on a click of Next on question
\* MAX_QUESTIONS, and restartGame leaves score 0, currentQuestion 1 and
\* gameComplete false.
GuesserCountsStayInRange ==
    /\ [](/\ \A option \in Names :
                ui.showAnswer => handleOptionSelect(ui, option) = ui
          /\ 1 <= ui.currentQuestion /\ ui.currentQuestion <= MAX_QUESTIONS
          /\ 0 <= ui.score /\ ui.score <= result.answered
          /\ result.answered <= MAX_QUESTIONS)
    /\ [][/\ ui'.score # ui.score =>
                \/ GuesserClickRestart /\ ui'.score = 0
                \/ /\ GuesserClickOptionWith(ui.correctAnswer)
                   /\ ui'.score = ui.score + 1
          /\ (\E option \in Names :
                 GuesserClickOptionWith(option) /\ option # ui.correctAnswer)
                => ui'.score = ui.score
          /\ (~ui.gameComplete /\ ui'.gameComplete) <=>
                (GuesserClickNext /\ ui.currentQuestion = MAX_QUESTIONS)
          /\ GuesserClickRestart =>
                /\ ui'.score = 0
                /\ ui'.currentQuestion = 1
                /\ ~ui'.gameComplete]_vars

\* The quiz is complete after five answers, three of them correct, the
\* last one revealed.
GuesserFinishedMixed ==
    /\ ui.gameComplete
    /\ ui.showAnswer
    /\ ui.currentQuestion = MAX_QUESTIONS
    /\ result.answered = MAX_QUESTIONS
    /\ ui.score = 3

====
